---- MODULE Spec2Model ----
(***************************************************************************)
(* Model of main.py: the translation client get_translation and the        *)
(* Streamlit script that drives it (language selection, swap, chat         *)
(* history, submit handler).                                               *)
(*                                                                         *)
(* A call of get_translation is a record of the sequence calls.  The call  *)
(* is split at its single await (Runner.run): the first half composes the  *)
(* query and issues the request, the second half is the return statement   *)
(* or the except clause, depending on what the awaited call does.          *)
(***************************************************************************)
EXTENDS Naturals, Sequences, FiniteSets, TLC

\* Bound of the model: the number of get_translation calls in one behaviour.
MaxCalls == 2

\* main.py:222-226
languages ==
    << "English", "Spanish", "French", "German", "Chinese", "Japanese",
       "Russian", "Arabic", "Hindi", "Urdu", "Portuguese", "Italian",
       "Dutch", "Korean", "Turkish", "Swedish", "Polish" >>

\* main.py:235-238, the selections of a fresh session.
DefaultSource == "English"
DefaultTarget == "Urdu"

\* The entries of languages the model lets the user select and the remote name.
ModelLanguages ==
    { l \in { languages[k] : k \in DOMAIN languages } : l \in {DefaultSource, DefaultTarget} }

\* The texts the model lets the user type and the remote echo.
Texts == {"", "dog"}

\* The translated_text values the remote produces.
Translations == {"perro"}

\* Errors the awaited Runner.run can raise, by Python class.  The first set
\* derives from Exception (timeout, malformed or non-schema output); the
\* second derives from BaseException only (cancellation of the awaiting task).
ExceptionClasses == {"APITimeoutError", "ModelBehaviorError"}
BaseExceptionOnlyClasses == {"CancelledError"}
ErrorClasses == ExceptionClasses \cup BaseExceptionOnlyClasses

\* main.py:61
FallbackText == "Sorry, an error occurred during translation. Please try again."

\* main.py:293
AttributionPrefix == "As Abdul Qadeer Trained Me The Translation Of This Line Will Be: "

\* main.py:20-24, the pydantic record.
TranslationResponse(source_language, target_language, translated_text, original_text) ==
    [ source_language |-> source_language,
      target_language |-> target_language,
      translated_text |-> translated_text,
      original_text   |-> original_text ]

\* What the remote capability can put into final_output: output_type makes the
\* SDK hand back a TranslationResponse, whose four fields the model chooses.
RemoteResponses ==
    { TranslationResponse(s, t, tr, o) :
        s \in ModelLanguages, t \in ModelLanguages, tr \in Translations, o \in Texts }

\* Placeholder of a call that has nothing to return (yet).
NoResponse == TranslationResponse("", "", "", "")

\* What the awaited Runner.run did.
NoOutcome == [kind |-> "none", final_output |-> NoResponse, error |-> ""]
Returned(final_output) == [kind |-> "return", final_output |-> final_output, error |-> ""]
Raised(cls) == [kind |-> "raise", final_output |-> NoResponse, error |-> cls]

VARIABLES
    chat_history,   \* st.session_state.chat_history
    source_lang,    \* st.session_state.source_lang / the "From:" selectbox
    target_lang,    \* st.session_state.target_lang / the "To:" selectbox
    reset_input,    \* st.session_state["reset_input"]
    submit_button,  \* the Send button's value in the latest script run
    user_input,     \* the text area's value in the latest script run
    pc,             \* "idle", or "translating" while line 290 awaits
    calls           \* every call of get_translation so far, in order

vars == << chat_history, source_lang, target_lang, reset_input,
           submit_button, user_input, pc, calls >>

ui_vars == << chat_history, source_lang, target_lang, reset_input,
              submit_button, user_input, pc >>

----------------------------------------------------------------------------
(* get_translation, main.py:51-63 *)

\* main.py:53
Query(text, src, tgt) ==
    "Translate from " \o src \o " to " \o tgt \o ": " \o text

\* AwaitRunner with an identity request answered locally, without a request.
AwaitRunnerShortCircuit(text, src, tgt) ==
    [ text        |-> text,
      source_lang |-> src,
      target_lang |-> tgt,
      query       |-> Query(text, src, tgt),
      requests    |-> IF src = tgt THEN 0 ELSE 1,
      notices     |-> << >>,
      state       |-> "pending",
      outcome     |-> NoOutcome,
      result      |-> NoResponse ]

\* main.py:51-54: entry, query composition, the one Runner.run request, await.
AwaitRunner(text, src, tgt) ==
    [ text        |-> text,
      source_lang |-> src,
      target_lang |-> tgt,
      query       |-> Query(text, src, tgt),
      requests    |-> 1,
      notices     |-> << >>,
      state       |-> "pending",
      outcome     |-> NoOutcome,
      result      |-> NoResponse ]

\* OnReturn with the remote's original_text overwritten by the caller's text.
OnReturnEchoingText(c, final_output) ==
    [ c EXCEPT !.state   = "succeeded",
               !.outcome = Returned(final_output),
               !.result  = [final_output EXCEPT !.original_text = c.text] ]

\* OnReturn that keeps context: the translation of an earlier successful call
\* is put in front of the new one.
OnReturnAccumulating(c, final_output) ==
    LET earlier == { j \in DOMAIN calls : calls[j].state = "succeeded" } IN
    [ c EXCEPT !.state   = "succeeded",
               !.outcome = Returned(final_output),
               !.result  = IF earlier = {}
                           THEN final_output
                           ELSE [ final_output EXCEPT !.translated_text =
                                    calls[CHOOSE j \in earlier : TRUE].result.translated_text
                                        \o " " \o @ ] ]

\* main.py:55: return result.final_output
OnReturn(c, final_output) ==
    [ c EXCEPT !.state   = "succeeded",
               !.outcome = Returned(final_output),
               !.result  = final_output ]

\* main.py:56: except Exception
Caught(cls) == cls \in ExceptionClasses

\* Fallback with the two languages in each other's place.
FallbackSwapped(text, src, tgt) ==
    TranslationResponse(tgt, src, FallbackText, text)

\* main.py:58-63
Fallback(text, src, tgt) ==
    TranslationResponse(src, tgt, FallbackText, text)

\* main.py:57
ErrorNotice(cls) == "Error during translation: " \o cls

\* OnRaise that reports the error twice.
OnRaiseNoticeTwice(c, cls) ==
    IF Caught(cls)
    THEN [ c EXCEPT !.state   = "failed",
                    !.outcome = Raised(cls),
                    !.notices = << ErrorNotice(cls), ErrorNotice(cls) >>,
                    !.result  = Fallback(c.text, c.source_lang, c.target_lang) ]
    ELSE [ c EXCEPT !.state   = "escaped",
                    !.outcome = Raised(cls) ]

\* main.py:56-63: the except clause, or the propagation of what it lets through.
OnRaise(c, cls) ==
    IF Caught(cls)
    THEN [ c EXCEPT !.state   = "failed",
                    !.outcome = Raised(cls),
                    !.notices = Append(@, ErrorNotice(cls)),
                    !.result  = Fallback(c.text, c.source_lang, c.target_lang) ]
    ELSE [ c EXCEPT !.state   = "escaped",
                    !.outcome = Raised(cls) ]

----------------------------------------------------------------------------
(* The client alone: get_translation called with any arguments. *)

Init ==
    /\ chat_history = << >>              \* main.py:218-219
    /\ source_lang = DefaultSource       \* main.py:235-236
    /\ target_lang = DefaultTarget       \* main.py:237-238
    /\ reset_input = FALSE
    /\ submit_button = FALSE
    /\ user_input = ""
    /\ pc = "idle"
    /\ calls = << >>

Call(text, src, tgt) ==
    /\ Len(calls) < MaxCalls
    /\ calls' = Append(calls, AwaitRunner(text, src, tgt))
    /\ UNCHANGED ui_vars

RunnerReturns(i, final_output) ==
    /\ calls[i].state = "pending"
    /\ calls' = [calls EXCEPT ![i] = OnReturn(@, final_output)]
    /\ UNCHANGED ui_vars

RunnerRaises(i, cls) ==
    /\ calls[i].state = "pending"
    /\ calls' = [calls EXCEPT ![i] = OnRaise(@, cls)]
    /\ UNCHANGED ui_vars

ClientNext ==
    \/ \E text \in Texts, src \in ModelLanguages, tgt \in ModelLanguages :
          Call(text, src, tgt)
    \/ \E i \in DOMAIN calls, final_output \in RemoteResponses :
          RunnerReturns(i, final_output)
    \/ \E i \in DOMAIN calls, cls \in ErrorClasses :
          RunnerRaises(i, cls)

ClientSpec == Init /\ [][ClientNext]_vars

----------------------------------------------------------------------------
(* The Streamlit script, main.py:217-302.  One action is one script run, *)
(* started by one user event; a run that submits is split at line 290,   *)
(* where asyncio.run blocks the script until get_translation is over.    *)

UserMessage(content) == [role |-> "user", content |-> content]            \* main.py:286
AssistantMessage(content) == [role |-> "assistant", content |-> content]  \* main.py:296

\* FormatResponse that leaves the translated text out.
FormatResponsePrefixOnly(response) == AttributionPrefix

\* main.py:293
FormatResponse(response) == AttributionPrefix \o response.translated_text

\* main.py:284: if submit_button and user_input
ShouldProcess(button, input) == button /\ input # ""

\* main.py:241-242: another language picked in the "From:" selectbox.
SelectSource(lang) ==
    /\ pc = "idle"
    /\ source_lang' = lang
    /\ submit_button' = FALSE
    /\ reset_input' = FALSE
    /\ UNCHANGED << chat_history, target_lang, user_input, calls, pc >>

\* main.py:250-251: another language picked in the "To:" selectbox.
SelectTarget(lang) ==
    /\ pc = "idle"
    /\ target_lang' = lang
    /\ submit_button' = FALSE
    /\ reset_input' = FALSE
    /\ UNCHANGED << chat_history, source_lang, user_input, calls, pc >>

\* main.py:245-247: the swap button, and the rerun it asks for, in which both
\* selectboxes are rebuilt with the swapped session values as their index.
Swap ==
    /\ pc = "idle"
    /\ source_lang' = target_lang
    /\ target_lang' = source_lang
    /\ submit_button' = FALSE
    /\ reset_input' = FALSE
    /\ UNCHANGED << chat_history, user_input, calls, pc >>

\* A script run that no button started (page load, edit of the text area).
Rerun(input) ==
    /\ pc = "idle"
    /\ user_input' = input
    /\ submit_button' = FALSE
    /\ reset_input' = FALSE
    /\ UNCHANGED << chat_history, source_lang, target_lang, calls, pc >>

\* main.py:284-290: the Send button.  A run that passes the test of line 284
\* appends the user message and blocks in asyncio.run(get_translation(...)).
Submit(input) ==
    /\ pc = "idle"
    /\ submit_button' = TRUE
    /\ user_input' = input
    /\ reset_input' = FALSE
    /\ IF ShouldProcess(TRUE, input)
       THEN /\ Len(calls) < MaxCalls
            /\ chat_history' = Append(chat_history, UserMessage(input))
            /\ calls' = Append(calls, AwaitRunner(input, source_lang, target_lang))
            /\ pc' = "translating"
       ELSE UNCHANGED << chat_history, calls, pc >>
    /\ UNCHANGED << source_lang, target_lang >>

\* main.py:293-302 after get_translation gave back response: the assistant
\* message, reset_input set (299), st.rerun() (302), and the run it starts,
\* which finds no button pressed and clears reset_input again (305-306).
Display(response) ==
    /\ chat_history' = Append(chat_history, AssistantMessage(FormatResponse(response)))
    /\ reset_input' = FALSE
    /\ submit_button' = FALSE
    /\ pc' = "idle"

\* main.py:54-55, then 293-302.
TranslationReturns(final_output) ==
    /\ pc = "translating"
    /\ LET c == OnReturn(calls[Len(calls)], final_output) IN
          /\ calls' = [calls EXCEPT ![Len(calls)] = c]
          /\ Display(c.result)
    /\ UNCHANGED << source_lang, target_lang, user_input >>

\* main.py:56-63, then 293-302 when the except clause returned the fallback.
\* An error the clause does not catch leaves get_translation, asyncio.run and
\* the script run at line 290: lines 293-302 are not executed.
TranslationRaises(cls) ==
    /\ pc = "translating"
    /\ LET c == OnRaise(calls[Len(calls)], cls) IN
          /\ calls' = [calls EXCEPT ![Len(calls)] = c]
          /\ IF c.state = "failed"
             THEN Display(c.result)
             ELSE /\ pc' = "idle"
                  /\ UNCHANGED << chat_history, reset_input, submit_button >>
    /\ UNCHANGED << source_lang, target_lang, user_input >>

Next ==
    \/ \E lang \in ModelLanguages : SelectSource(lang)
    \/ \E lang \in ModelLanguages : SelectTarget(lang)
    \/ Swap
    \/ \E input \in Texts : Rerun(input)
    \/ \E input \in Texts : Submit(input)
    \/ \E final_output \in RemoteResponses : TranslationReturns(final_output)
    \/ \E cls \in ErrorClasses : TranslationRaises(cls)

Spec == Init /\ [][Next]_vars

----------------------------------------------------------------------------
(* Properties.  C1-C7 and C9 are about get_translation and are checked     *)
(* under ClientSpec; C8 and C10 are about the script and are checked under *)
(* Spec.                                                                   *)

\* The awaited remote call of c is over.
Finished(c) == c.outcome.kind # "none"

\* The remote call of c succeeded: Runner.run gave back a final_output.
RemoteSucceeded(c) == c.outcome.kind = "return"

\* The remote call of c failed: it raised a timeout, a malformed-output error
\* or another error that derives from Exception.
RemoteFailed(c) == c.outcome.kind = "raise" /\ c.outcome.error \in ExceptionClasses

\* get_translation gave c's caller a value.
HasReturned(c) == c.state \in {"succeeded", "failed"}

\* r is a record of the four string fields of main.py:20-24.
IsTranslationResult(r) ==
    /\ DOMAIN r = {"source_language", "target_language", "translated_text", "original_text"}
    /\ \A f \in DOMAIN r : r[f] \in STRING

\* C1: whatever the remote call does (return, or raise any kind of error), no
\* error leaves get_translation: once the remote call is over, the caller has
\* received a TranslationResult.
C1_NoErrorEscapes ==
    \A i \in DOMAIN calls :
        Finished(calls[i]) =>
            /\ HasReturned(calls[i])
            /\ IsTranslationResult(calls[i].result)

\* C2: whenever the remote call fails, get_translation(text, source_lang,
\* target_lang) returns the record (source_lang, target_lang, apology, text).
C2_FallbackOnFailure ==
    \A i \in DOMAIN calls :
        RemoteFailed(calls[i]) =>
            /\ HasReturned(calls[i])
            /\ calls[i].result =
                 [ source_language |-> calls[i].source_lang,
                   target_language |-> calls[i].target_lang,
                   translated_text |->
                     "Sorry, an error occurred during translation. Please try again.",
                   original_text   |-> calls[i].text ]

\* C2's case: a failed remote call for an identity request with empty text,
\* and one for distinct languages with text, both answered.
C2_Witness ==
    /\ \E i \in DOMAIN calls :
          /\ RemoteFailed(calls[i]) /\ HasReturned(calls[i])
          /\ calls[i].source_lang = calls[i].target_lang /\ calls[i].text = ""
    /\ \E i \in DOMAIN calls :
          /\ RemoteFailed(calls[i]) /\ HasReturned(calls[i])
          /\ calls[i].source_lang # calls[i].target_lang /\ calls[i].text # ""

\* C3: on the success path and on the failure path, whatever the remote
\* returns, the returned record's original_text is the text passed in.
C3_OriginalTextIsInput ==
    \A i \in DOMAIN calls :
        HasReturned(calls[i]) => calls[i].result.original_text = calls[i].text

\* C4: whenever the remote call succeeds, the record get_translation returns
\* is the record the remote produced, all four fields untouched.
C4_SuccessPassThrough ==
    \A i \in DOMAIN calls :
        RemoteSucceeded(calls[i]) =>
            /\ calls[i].state = "succeeded"
            /\ calls[i].result = calls[i].outcome.final_output

\* C4's case: a successful call whose remote record disagrees with the request
\* in both languages and in the text.
C4_Witness ==
    \E i \in DOMAIN calls :
        /\ RemoteSucceeded(calls[i]) /\ HasReturned(calls[i])
        /\ calls[i].result.source_language # calls[i].source_lang
        /\ calls[i].result.target_language # calls[i].target_lang
        /\ calls[i].result.original_text # calls[i].text

\* C5: every call of get_translation has issued exactly one request, while it
\* waits and after it is over, whatever its arguments and its outcome.
C5_ExactlyOneRequest ==
    \A i \in DOMAIN calls : calls[i].requests = 1

\* C5's case: a failed call for an identity request with empty text, and a
\* call of the same kind still waiting for its one response.
C5_Witness ==
    /\ \E i \in DOMAIN calls :
          /\ RemoteFailed(calls[i]) /\ calls[i].state = "failed"
          /\ calls[i].source_lang = calls[i].target_lang /\ calls[i].text = ""
          /\ calls[i].requests = 1
    /\ \E i \in DOMAIN calls :
          /\ calls[i].state = "pending"
          /\ calls[i].source_lang = calls[i].target_lang /\ calls[i].text = ""

\* C6: a failed remote call is reported with exactly one error notice, and a
\* successful call (like a call still waiting) with none.
C6_OneNoticePerFailure ==
    \A i \in DOMAIN calls :
        /\ RemoteFailed(calls[i]) =>
              calls[i].notices = << "Error during translation: " \o calls[i].outcome.error >>
        /\ (RemoteSucceeded(calls[i]) \/ ~Finished(calls[i])) => calls[i].notices = << >>

\* C6's case: one failed and one successful call.
C6_Witness ==
    /\ \E i \in DOMAIN calls : RemoteFailed(calls[i]) /\ Len(calls[i].notices) = 1
    /\ \E i \in DOMAIN calls : RemoteSucceeded(calls[i]) /\ Len(calls[i].notices) = 0

\* C7: a pending call moves in one step to succeeded or to failed-with-fallback
\* and to nothing else, and a call in one of these two outcomes stays as it is.
C7_TwoTerminalOutcomes ==
    [][ \A i \in DOMAIN calls :
          /\ calls[i].state = "pending" =>
                calls'[i].state \in {"pending", "succeeded", "failed"}
          /\ calls[i].state \in {"succeeded", "failed"} => calls'[i] = calls[i]
      ]_vars

C8_ApologyDisplayed ==
    (pc = "idle" /\ calls # << >> /\ RemoteFailed(calls[Len(calls)])) =>
        /\ calls[Len(calls)].state = "failed"
        /\ Len(chat_history) >= 2
        /\ chat_history[Len(chat_history) - 1] =
             [role |-> "user", content |-> calls[Len(calls)].text]
        /\ chat_history[Len(chat_history)] =
             [ role    |-> "assistant",
               content |-> "As Abdul Qadeer Trained Me The Translation Of This Line Will Be: "
                           \o "Sorry, an error occurred during translation. Please try again." ]

\* C8's case: a submission whose remote call failed is over.
C8_Witness ==
    /\ pc = "idle" /\ calls # << >> /\ RemoteFailed(calls[Len(calls)])
    /\ chat_history # << >>
    /\ chat_history[Len(chat_history)].role = "assistant"

\* C10: between script runs the transcript is made of complete pairs: a user
\* entry at every odd place, its assistant entry at the even place after it.
C10_CompletePairs ==
    pc = "idle" =>
        /\ Len(chat_history) % 2 = 0
        /\ \A k \in DOMAIN chat_history :
              chat_history[k].role = (IF k % 2 = 1 THEN "user" ELSE "assistant")

====
